---- MODULE Spec2Model ----
(***************************************************************************)
(* Model of src/src/stack.rs: the Hook activation policy, InspectorStack   *)
(* (a fixed list of optional inspector slots), the call_inspectors! macro  *)
(* and the nine Inspector dispatch methods.                                *)
(*                                                                         *)
(* The macro is written for a list of one or more slots; the model keeps   *)
(* the list general (NumSlots slots, expanded in declaration order).  The  *)
(* inspectors themselves are external: what an inspector returns for an    *)
(* event is an input of the event (resp).                                  *)
(***************************************************************************)
EXTENDS Integers, Sequences, FiniteSets, TLC

\* ---------------------------------------------------------------- bounds
NumSlots == 3       \* inspector slots handed to call_inspectors!
MaxOutcome == 1     \* outcomes are 0..MaxOutcome, compared by value
HeightSpan == 1     \* low limbs of block heights: 100..100+HeightSpan
MaxHigh == 1        \* high limbs of a U256 block number: 0..MaxHigh

Slots == 1..NumSlots
Outcomes == 0..MaxOutcome
Heights == 100..(100 + HeightSpan)
TxHashes == {171, 172}

\* Option<T>: None is <<>>, Some(x) is <<x>>.
None == <<>>
Some(x) == <<x>>
Options == {None} \cup {Some(o) : o \in Outcomes}

\* A U256 holds more than a u64: lo is the least significant 64 bits, hi
\* stands for the bits above them.
U256s == [hi : 0..MaxHigh, lo : Heights]

\* enum Hook
HookNone == [tag |-> "None", val |-> 0]
HookBlock(b) == [tag |-> "Block", val |-> b]
HookTransaction(h) == [tag |-> "Transaction", val |-> h]
HookAll == [tag |-> "All", val |-> 0]
Hooks == {HookNone, HookAll} \cup {HookBlock(b) : b \in Heights}
            \cup {HookTransaction(h) : h \in TxHashes}

\* struct InspectorStackConfig, with one enable flag per slot
Configs == [hook : Hooks, use_tracer : [Slots -> BOOLEAN]]

VARIABLES
    hook,       \* InspectorStack.hook
    slots,      \* slots[i]: slot i holds an inspector (Option is Some)
    env,        \* env.block.number of the transaction being run
    tx_hash,    \* hash of the transaction being run
    pc,         \* driver: "idle" | "tx" | "aborted"
    inspect,    \* result of the driver's should_inspect call
    ev,         \* the last event dispatched in this transaction, or "none"
    arg,        \* the outcome handed to call_end / create_end, else 0
    resp,       \* resp[i]: what the inspector in slot i returns for ev
    trace,      \* the inspector invocations of the last dispatch, in order
    ret         \* the value the last dispatch returned

vars == <<hook, slots, env, tx_hash, pc, inspect, ev, arg, resp, trace, ret>>

\* ------------------------------------------------------- InspectorStack
\* InspectorStack::new
New(config) ==
    [hook |-> config.hook,
     slots |-> [i \in Slots |-> config.use_tracer[i]]]

\* Uint::to::<u64>(): the conversion fails when the value does not fit.
ToU64(n) ==
    IF n.hi = 0 THEN [panicked |-> FALSE, value |-> n.lo]
                ELSE [panicked |-> TRUE, value |-> 0]

Returns(b) == [panicked |-> FALSE, value |-> b]
Panics == [panicked |-> TRUE, value |-> FALSE]

should_inspect_none_true(h, e, t) ==
    CASE h.tag = "None" -> Returns(TRUE)
      [] h.tag = "Block" ->
            IF ToU64(e).panicked THEN Panics
            ELSE Returns(ToU64(e).value = h.val)
      [] h.tag = "Transaction" -> Returns(h.val = t)
      [] h.tag = "All" -> Returns(TRUE)

\* InspectorStack::should_inspect
should_inspect(h, e, t) ==
    CASE h.tag = "None" -> Returns(FALSE)
      [] h.tag = "Block" ->
            IF ToU64(e).panicked THEN Panics
            ELSE Returns(ToU64(e).value = h.val)
      [] h.tag = "Transaction" -> Returns(h.val = t)
      [] h.tag = "All" -> Returns(TRUE)

\* ------------------------------------------------------ call_inspectors!
IfLetSomeAlways(slot) == TRUE

\* `if let Some($id) = $inspector`: the body runs for a populated slot only
IfLetSome(slot) == slot

Invocation(i, recv) == [slot |-> i, recv |-> recv]

FanOutBodyStop(st, i) ==
    [st EXCEPT !.trace = Append(@, Invocation(i, None)), !.done = TRUE]

\* body of the fan-out methods: `inspector.<event>(..);`
FanOutBody(st, i) ==
    [st EXCEPT !.trace = Append(@, Invocation(i, None))]

CallBodyDiscards(st, i, r) ==
    [st EXCEPT !.trace = Append(@, Invocation(i, None))]

\* body of call / create: `inspector.call(context, inputs)`.  It has no
\* `return`, so the expansion goes on to the next slot; as in a Rust block,
\* the value of the expansion is the value of the body that ran last (no
\* value if none ran), which the method then flattens.
CallBody(st, i, r) ==
    [st EXCEPT !.trace = Append(@, Invocation(i, None)), !.val = Some(r[i])]

CallEndBodyNoReturn(st, i, r, outcome) ==
    [st EXCEPT !.trace = Append(@, Invocation(i, Some(outcome)))]

CallEndBodyReturnsOnEqual(st, i, r, outcome) ==
    LET new_ret == r[i]
        st1 == [st EXCEPT !.trace = Append(@, Invocation(i, Some(outcome)))]
    IN  IF new_ret = outcome
        THEN [st1 EXCEPT !.val = Some(new_ret), !.done = TRUE]
        ELSE st1

\* body of call_end / create_end: the inspector gets a clone of the outcome
\* the method received; a different result is returned at once.
CallEndBody(st, i, r, outcome) ==
    LET new_ret == r[i]
        st1 == [st EXCEPT !.trace = Append(@, Invocation(i, Some(outcome)))]
    IN  IF new_ret # outcome
        THEN [st1 EXCEPT !.val = Some(new_ret), !.done = TRUE]
        ELSE st1

Start == [trace |-> <<>>, val |-> None, done |-> FALSE]

\* The macro's repetition $( if let Some(..) = .. { $call } )+, one
\* expansion per slot, in the order the slots are listed.
RECURSIVE ExpandFanOut(_, _, _)
ExpandFanOut(s, i, st) ==
    IF i > Len(s) \/ st.done THEN st
    ELSE ExpandFanOut(s, i + 1, IF IfLetSome(s[i]) THEN FanOutBody(st, i) ELSE st)

RECURSIVE ExpandCall(_, _, _, _)
ExpandCall(s, r, i, st) ==
    IF i > Len(s) \/ st.done THEN st
    ELSE ExpandCall(s, r, i + 1, IF IfLetSome(s[i]) THEN CallBody(st, i, r) ELSE st)

RECURSIVE ExpandCallEnd(_, _, _, _, _)
ExpandCallEnd(s, r, outcome, i, st) ==
    IF i > Len(s) \/ st.done THEN st
    ELSE ExpandCallEnd(s, r, outcome, i + 1,
            IF IfLetSome(s[i]) THEN CallEndBody(st, i, r, outcome) ELSE st)

SlotList == [i \in Slots |-> slots[i]]

\* Option<Option<T>>::flatten
Flatten(oo) == IF oo = None THEN None ELSE oo[1]

\* ------------------------------------------------------------- the driver
NoResp == [i \in Slots |-> None]

Init ==
    /\ \E config \in Configs :
          /\ hook = New(config).hook
          /\ slots = New(config).slots
    /\ env \in U256s
    /\ tx_hash \in TxHashes
    /\ pc = "idle"
    /\ inspect = Returns(FALSE)
    /\ ev = "none"
    /\ arg = 0
    /\ resp = NoResp
    /\ trace = <<>>
    /\ ret = None

\* The driver asks should_inspect once for the transaction about to run and
\* wires the stack into the interpreter only if the answer is true.
BeginTx ==
    /\ pc = "idle"
    /\ \E e \in U256s, t \in TxHashes :
          /\ env' = e
          /\ tx_hash' = t
          /\ inspect' = should_inspect(hook, e, t)
          /\ pc' = IF should_inspect(hook, e, t).panicked THEN "aborted" ELSE "tx"
    /\ ev' = "none"
    /\ arg' = 0
    /\ resp' = NoResp
    /\ trace' = <<>>
    /\ ret' = None
    /\ UNCHANGED <<hook, slots>>

EndTx ==
    /\ pc \in {"tx", "aborted"}
    /\ pc' = "idle"
    /\ inspect' = Returns(FALSE)
    /\ ev' = "none"
    /\ arg' = 0
    /\ resp' = NoResp
    /\ trace' = <<>>
    /\ ret' = None
    /\ UNCHANGED <<hook, slots, env, tx_hash>>

\* The interpreter takes the value a hook returned and goes on executing.
Resume ==
    /\ pc = "tx"
    /\ ev # "none"
    /\ ev' = "none"
    /\ arg' = 0
    /\ resp' = NoResp
    /\ trace' = <<>>
    /\ ret' = None
    /\ UNCHANGED <<hook, slots, env, tx_hash, pc, inspect>>

\* The interpreter calls a hook only with the stack wired in, one at a time.
Wired == pc = "tx" /\ inspect = Returns(TRUE) /\ ev = "none"

\* ---------------------------------------------------- Inspector methods
FanOut(name) ==
    /\ ev' = name
    /\ arg' = 0
    /\ resp' = NoResp
    /\ trace' = ExpandFanOut(SlotList, 1, Start).trace
    /\ ret' = None
    /\ UNCHANGED <<hook, slots, env, tx_hash, pc, inspect>>

initialize_interp ==
    /\ Wired
    /\ FanOut("initialize_interp")

step ==
    /\ Wired
    /\ FanOut("step")

step_end ==
    /\ Wired
    /\ FanOut("step_end")

log ==
    /\ Wired
    /\ FanOut("log")

selfdestruct ==
    /\ Wired
    /\ FanOut("selfdestruct")

Override(name) ==
    /\ \E r \in [Slots -> Options] :
          /\ resp' = r
          /\ trace' = ExpandCall(SlotList, r, 1, Start).trace
          /\ ret' = Flatten(ExpandCall(SlotList, r, 1, Start).val)
    /\ ev' = name
    /\ arg' = 0
    /\ UNCHANGED <<hook, slots, env, tx_hash, pc, inspect>>

call ==
    /\ Wired
    /\ Override("call")

create ==
    /\ Wired
    /\ Override("create")

End(name) ==
    /\ \E outcome \in Outcomes, r \in [Slots -> {Some(o) : o \in Outcomes}] :
          LET st == ExpandCallEnd(SlotList, [i \in Slots |-> r[i][1]], outcome, 1, Start)
          IN  /\ arg' = outcome
              /\ resp' = r
              /\ trace' = st.trace
              /\ ret' = IF st.done THEN st.val ELSE Some(outcome)
    /\ ev' = name
    /\ UNCHANGED <<hook, slots, env, tx_hash, pc, inspect>>

call_end ==
    /\ Wired
    /\ End("call_end")

create_end ==
    /\ Wired
    /\ End("create_end")

Next ==
    \/ BeginTx
    \/ EndTx
    \/ Resume
    \/ initialize_interp
    \/ step
    \/ step_end
    \/ log
    \/ call
    \/ call_end
    \/ create
    \/ create_end
    \/ selfdestruct

Spec == Init /\ [][Next]_vars

\* ------------------------------------------------------------ properties
Populated == {i \in Slots : slots[i]}
Count(i) == Cardinality({k \in 1..Len(trace) : trace[k].slot = i})
FanOutEvents == {"initialize_interp", "step", "step_end", "log", "selfdestruct"}
OverrideEvents == {"call", "create"}
EndEvents == {"call_end", "create_end"}
Least(S) == CHOOSE i \in S : \A j \in S : i <= j

\* The truth table of the activation policy; a height equals h when the
\* whole 256-bit number does.
TruthTable(h, e, t) ==
    CASE h.tag = "None" -> FALSE
      [] h.tag = "Block" -> e = [hi |-> 0, lo |-> h.val]
      [] h.tag = "Transaction" -> t = h.val
      [] h.tag = "All" -> TRUE

\* C1: for every policy, block height and transaction id, should_inspect
\* returns exactly the truth-table value.
C1_TruthTable ==
    pc # "idle" => inspect = Returns(TruthTable(hook, env, tx_hash))

\* C2: should_inspect never fails or aborts, whatever 256-bit height the
\* environment holds, and leaves the policy and the slots unchanged.
C2_NoErrorNoEffect ==
    [][(pc = "idle" /\ pc' # "idle")
         => (~inspect'.panicked /\ hook' = hook /\ slots' = slots)]_vars

\* The populated slots whose inspector returned an override, and those whose
\* inspector returned an outcome other than the one handed to the method.
Overriders == {i \in Populated : resp[i] # None}
Changers == {i \in Populated : resp[i] # Some(arg)}

C4_FirstChangeWins ==
    ev \in EndEvents =>
        ret = (IF Changers = {} THEN Some(arg) ELSE resp[Least(Changers)])

C4_Witness ==
    /\ ev = "create_end"
    /\ {1, 2} \subseteq Populated
    /\ resp[1] = Some(arg)
    /\ resp[2] # Some(arg)
    /\ ret = resp[2]

\* C5: with no slot populated a dispatch invokes no inspector and changes no
\* state; Call / Create return None, CallEnd / CreateEnd the input outcome.
C5_EmptyStackIdentity ==
    [][(ev' # "none" /\ Populated = {})
         => /\ trace' = <<>>
            /\ hook' = hook /\ slots' = slots /\ env' = env /\ tx_hash' = tx_hash
            /\ (ev' \in OverrideEvents => ret' = None)
            /\ (ev' \in EndEvents => ret' = Some(arg'))]_vars

C5_Witness ==
    /\ Populated = {}
    /\ ev = "call_end"
    /\ arg = MaxOutcome
    /\ ret = Some(MaxOutcome)

\* C6: with exactly one slot populated, every event invokes that inspector
\* exactly once with the event's input and returns what the inspector returns.
C6_PassThrough ==
    (ev # "none" /\ Cardinality(Populated) = 1) =>
        LET p == Least(Populated)
        IN  /\ trace = <<Invocation(p, IF ev \in EndEvents THEN Some(arg) ELSE None)>>
            /\ ret = (IF ev \in FanOutEvents THEN None ELSE resp[p])

C6_Witness ==
    /\ Populated = {NumSlots - 1}
    /\ ev = "call"
    /\ resp[NumSlots - 1] # None
    /\ ret = resp[NumSlots - 1]

\* C7: a fan-out event invokes every populated inspector exactly once, in
\* declaration order, never an empty slot, and returns no value.
C7_FanOutAll ==
    ev \in FanOutEvents =>
        /\ \A i \in Slots : Count(i) = (IF i \in Populated THEN 1 ELSE 0)
        /\ \A k, l \in 1..Len(trace) : k < l => trace[k].slot < trace[l].slot
        /\ ret = None

C7_Witness ==
    /\ ev = "selfdestruct"
    /\ Cardinality(Populated) >= 2
    /\ Populated # Slots
    /\ Len(trace) = Cardinality(Populated)

C10_EndShortCircuit ==
    (ev \in EndEvents /\ Changers # {}) =>
        LET c == Least(Changers)
        IN  /\ \A j \in Slots : j > c => Count(j) = 0
            /\ \A j \in Populated : j <= c => Count(j) = 1
            /\ \A k \in 1..Len(trace) : trace[k].recv = Some(arg)
            /\ ret = resp[c]

C10_Witness ==
    /\ ev = "call_end"
    /\ {1, 2, 3} \subseteq Populated
    /\ resp[1] = Some(arg)
    /\ resp[2] # Some(arg)
    /\ ret = resp[2]
    /\ Count(1) = 1 /\ Count(2) = 1 /\ Count(3) = 0

====
